---- MODULE Spec2Model ----
(***************************************************************************)
(* Model of the MapToPostcard web service (app/routes.py, app/renderer.py). *)
(* Strings are sequences of one-character strings; literal pieces of text   *)
(* that the code never takes apart are kept as one element.                 *)
(***************************************************************************)
EXTENDS Integers, Sequences, FiniteSets, TLC

\* ------------------------------------------------------------------ bounds
NumReqs == 2            \* POST /api/generate requests in one behaviour
MaxTime == 4            \* last clock tick of a behaviour
TicksPerSec == 2        \* clock resolution: ticks in one second
MaxEdges == 2           \* edges of a fetched graph (styling specification)
MaxMsgLen == 4          \* characters of a message (message specification)

\* ------------------------------------------------------- program constants
SleepSecs == 1          \* renderer.py:54  time.sleep(1)

Reqs == 1..NumReqs

\* ------------------------------------------------------------- str helpers
RECURSIVE Flatten(_)
Flatten(ss) == IF ss = <<>> THEN <<>> ELSE Head(ss) \o Flatten(Tail(ss))

\* str.lower() on the characters of the model's alphabet
LowerChar(c) == CASE c = "A" -> "a" [] c = "B" -> "b" [] c = "O" -> "o" [] OTHER -> c

str_lower(s) == [i \in 1..Len(s) |-> LowerChar(s[i])]

\* str.replace(old, new) for a one-character old and any string new
str_replace(s, old, new) ==
    Flatten([i \in 1..Len(s) |-> IF s[i] = old THEN new ELSE <<s[i]>>])

\* routes.py:92  request.city.lower().replace(' ', '_').replace("'", "")
city_slug(city) == str_replace(str_replace(str_lower(city), " ", <<"_">>), "'", <<>>)

\* ------------------------------------------------------------------ themes
ColorFields == {"bg", "text", "water", "parks", "road_motorway", "road_primary",
                "road_secondary", "road_tertiary", "road_residential",
                "road_default", "gradient_color"}

\* a complete theme record; n tells the colours of two themes apart
FullTheme(n) == [k \in ColorFields \cup {"name", "description"} |-> <<k, n>>]

\* ---------------------------------------------------- map styling functions
TableTags == {"motorway", "motorway_link", "trunk", "trunk_link", "primary",
              "primary_link", "secondary", "secondary_link", "tertiary",
              "tertiary_link", "residential", "living_street", "unclassified"}
OtherTags == {"service", "footway"}
ListTags == {"motorway", "residential", "footway"}

RECURSIVE SeqsUpTo(_, _)
SeqsUpTo(S, n) ==
    IF n = 0 THEN {<<>>}
    ELSE LET R == SeqsUpTo(S, n - 1)
         IN  R \cup {Append(r, x) : r \in {q \in R : Len(q) = n - 1}, x \in S}

\* the data of one edge: no highway key, a string, or a list of strings
EdgeData == {[kind |-> "absent", v |-> <<>>]}
            \cup {[kind |-> "str", v |-> <<t>>] : t \in TableTags \cup OtherTags}
            \cup {[kind |-> "list", v |-> l] : l \in SeqsUpTo(ListTags, 2)}

\* renderer.py:71-74  data.get('highway', 'unclassified'), first element of a list
highway_of(data) ==
    LET highway == IF data.kind = "absent" THEN [kind |-> "str", v |-> <<"unclassified">>]
                   ELSE data
    IN  IF highway.kind = "list"
        THEN (IF highway.v # <<>> THEN highway.v[1] ELSE "unclassified")
        ELSE highway.v[1]

\* the colour key with 'unclassified' routed to the default class
edge_color_key_absent_default(highway) ==
    IF highway = "unclassified" THEN "road_default" ELSE
    IF highway \in {"motorway", "motorway_link"} THEN "road_motorway"
    ELSE IF highway \in {"trunk", "trunk_link", "primary", "primary_link"} THEN "road_primary"
    ELSE IF highway \in {"secondary", "secondary_link"} THEN "road_secondary"
    ELSE IF highway \in {"tertiary", "tertiary_link"} THEN "road_tertiary"
    ELSE IF highway \in {"residential", "living_street"} THEN "road_residential"
    ELSE "road_default"

\* renderer.py:76-87  the theme key an edge's colour is read from
edge_color_key(highway) ==
    IF highway \in {"motorway", "motorway_link"} THEN "road_motorway"
    ELSE IF highway \in {"trunk", "trunk_link", "primary", "primary_link"} THEN "road_primary"
    ELSE IF highway \in {"secondary", "secondary_link"} THEN "road_secondary"
    ELSE IF highway \in {"tertiary", "tertiary_link"} THEN "road_tertiary"
    ELSE IF highway \in {"residential", "living_street", "unclassified"} THEN "road_residential"
    ELSE "road_default"

\* renderer.py:106-115  widths in tenths (1.2 -> 12)
edge_width(highway) ==
    IF highway \in {"motorway", "motorway_link"} THEN 12
    ELSE IF highway \in {"trunk", "trunk_link", "primary", "primary_link"} THEN 10
    ELSE IF highway \in {"secondary", "secondary_link"} THEN 8
    ELSE IF highway \in {"tertiary", "tertiary_link"} THEN 6
    ELSE 4

\* theme keys get_edge_colors_by_type reads, in edge order
edge_color_keys(G) == [i \in 1..Len(G) |-> edge_color_key(highway_of(G[i]))]

\* renderer.py:64-91, for a theme holding every key it reads
get_edge_colors_by_type(G, theme) == [i \in 1..Len(G) |-> theme[edge_color_keys(G)[i]]]

\* renderer.py:94-119
get_edge_widths_by_type(G) == [i \in 1..Len(G) |-> edge_width(highway_of(G[i]))]

\* ------------------------------------------------------------- message side
IsSpace(c) == c \in {" ", "\n"}

RECURSIVE str_lstrip(_)
str_lstrip(s) == IF s # <<>> /\ IsSpace(Head(s)) THEN str_lstrip(Tail(s)) ELSE s

RECURSIVE str_rstrip(_)
str_rstrip(s) ==
    IF s # <<>> /\ IsSpace(s[Len(s)]) THEN str_rstrip(SubSeq(s, 1, Len(s) - 1)) ELSE s

\* str.strip()
str_strip(s) == str_rstrip(str_lstrip(s))

\* str.split('\n'): the paragraphs of a message, at least one
RECURSIVE str_split_lines(_)
str_split_lines(s) ==
    LET nl == {i \in 1..Len(s) : s[i] = "\n"}
    IN  IF nl = {} THEN <<s>>
        ELSE LET i == CHOOSE j \in nl : \A k \in nl : j <= k
             IN  <<SubSeq(s, 1, i - 1)>> \o str_split_lines(SubSeq(s, i + 1, Len(s)))

\* textwrap.wrap(paragraph, width=35) of a paragraph that has a non-blank
\* character and is shorter than the width: one line, trailing blanks dropped
textwrap_wrap(paragraph) == <<str_rstrip(paragraph)>>

\* renderer.py:255-261
wrapped_lines_of(message) ==
    Flatten([i \in 1..Len(str_split_lines(message)) |->
               LET paragraph == str_split_lines(message)[i]
               IN  IF str_strip(paragraph) # <<>> THEN textwrap_wrap(paragraph)
                   ELSE << <<>> >>])

\* '\n'.join(lines)
RECURSIVE str_join_lines(_)
str_join_lines(lines) ==
    IF lines = <<>> THEN <<>>
    ELSE IF Len(lines) = 1 THEN lines[1]
    ELSE lines[1] \o <<"\n">> \o str_join_lines(Tail(lines))

DrawOp(op, s, y) == [op |-> op, s |-> s, y |-> y]

\* renderer.py:271-293  stamp, its label, the four address rules, attribution
Decorations ==
    << DrawOp("stamp_rect", <<>>, 0), DrawOp("text", <<"STAMP">>, 0),
       DrawOp("rule", <<>>, 40), DrawOp("rule", <<>>, 32),
       DrawOp("rule", <<>>, 24), DrawOp("rule", <<>>, 16),
       DrawOp("text", <<"(c) OpenStreetMap contributors">>, 0) >>

\* the message side without the early return of renderer.py:246-247
render_message_side_no_return(message) ==
    LET pane == << DrawOp("set_facecolor", <<>>, 0), DrawOp("axis_off", <<>>, 0) >>
    IN  pane \o << DrawOp("message", str_join_lines(wrapped_lines_of(message)), 0) >>
             \o Decorations

\* renderer.py:239-293  what is drawn on the axes, in order
render_message_side(message) ==
    LET pane == << DrawOp("set_facecolor", <<>>, 0), DrawOp("axis_off", <<>>, 0) >>
    IN  IF str_strip(message) = <<>> THEN pane
        ELSE pane \o << DrawOp("message", str_join_lines(wrapped_lines_of(message)), 0) >>
                  \o Decorations

\* ------------------------------------------------------- the disk and inputs
Cities == { <<"A", " ", "b", "'">>, <<"a", "_", "b">> }
Countries == { <<"F">> }
ThemeIds == { <<"t">>, <<"p">>, <<"m">>, <<"x">> }
MainMessages == { <<"a">> }

\* a record that parses but lacks a colour field the renderer reads
PartialTheme == [k \in (ColorFields \ {"gradient_color"}) \cup {"name"} |-> <<k, 2>>]

\* THEMES_DIR: t is complete, p lacks a field, m does not parse, x has no file
ThemesDir == (<<"t">> :> [kind |-> "json", data |-> FullTheme(1)])
          @@ (<<"p">> :> [kind |-> "json", data |-> PartialTheme])
          @@ (<<"m">> :> [kind |-> "malformed", data |-> <<>>])

\* the graph the road-network fetch returns in the request specification
MainGraphs == { << [kind |-> "str", v |-> <<"motorway">>], [kind |-> "absent", v |-> <<>>] >> }

\* --------------------------------------------------------------- exceptions
\* cls is "ValueError" for ValueError and its subclasses, "Other" for the rest
Exc(cls, msg) == [cls |-> cls, msg |-> msg]
NoExc == Exc("", <<>>)
KeyError(k) == Exc("Other", <<"'", k, "'">>)

\* ------------------------------------------------------------------- clock
Digit(n) == <<"0", "1", "2", "3", "4", "5", "6", "7", "8", "9">>[n + 1]
Digits2(n) == << Digit(n \div 10), Digit(n % 10) >>

\* routes.py:91  datetime.now().strftime("%Y%m%d_%H%M%S"); t in ticks since
\* midnight of the day the behaviour starts
strftime(t) ==
    LET sec == t \div TicksPerSec
    IN  <<"2", "0", "2", "6", "1", "1", "0", "1", "_">>
        \o Digits2((sec \div 3600) % 24) \o Digits2((sec \div 60) % 60) \o Digits2(sec % 60)

\* a sleep that returns at once
WakeTimeNoSleep(start) == start

\* renderer.py:54  the tick at which time.sleep(1), begun at tick start, may return
WakeTime(start) == start + SleepSecs * TicksPerSec

\* routes.py:93  f"{city_slug}_{request.theme}_{timestamp}.png"
filename_of(city, theme, t) ==
    city_slug(city) \o <<"_">> \o theme \o <<"_">> \o strftime(t) \o <<".png">>

\* ---------------------------------------------------------------- geocoder
GeoOutcomes == {"match", "none", "error"}
Point == <<48, 2>>

\* renderer.py:49-61 after the delay: the point, or the exception raised
get_coordinates(city, country, geoOut) ==
    IF geoOut = "match" THEN [raised |-> FALSE, exc |-> NoExc, point |-> Point, cause |-> ""]
    ELSE IF geoOut = "none"
    THEN [raised |-> TRUE, point |-> <<>>, cause |-> "geocode_miss",
          exc |-> Exc("ValueError", <<"Could not find coordinates for ">> \o city
                                     \o <<", ">> \o country)]
    ELSE [raised |-> TRUE, point |-> <<>>, cause |-> "geocode_error",
          exc |-> Exc("Other", <<"Service not available">>)]

\* -------------------------------------------------------------- compositor
RoadOutcomes ==
    {[ok |-> TRUE, G |-> g, exc |-> NoExc] : g \in MainGraphs}
    \cup {[ok |-> FALSE, G |-> <<>>, exc |-> e] :
            e \in {Exc("ValueError", <<"Found no graph nodes within the requested polygon">>),
                   Exc("Other", <<"Connection refused">>)}}
LayerOutcomes == {"fail", "empty", "data"}

Fetch(what, arg, ok) == [what |-> what, arg |-> arg, ok |-> ok]

\* first key of keys the theme lacks, 0 when it has them all
FirstMissing(theme, keys) ==
    LET miss == {i \in 1..Len(keys) : keys[i] \notin DOMAIN theme}
    IN  IF miss = {} THEN 0 ELSE CHOOSE i \in miss : \A j \in miss : i <= j

NoLayers == [water |-> FALSE, parks |-> FALSE, edge_colors |-> <<>>, edge_widths |-> <<>>]

\* the polygon layers fetched in fast mode too
polygon_fetches_always(fast, waterOut, parksOut) ==
    << Fetch("features_from_point", "water", waterOut # "fail"),
       Fetch("features_from_point", "parks", parksOut # "fail") >>

\* renderer.py:172-181  the water and parks fetches, issued when not fast
polygon_fetches(fast, waterOut, parksOut) ==
    IF fast THEN <<>>
    ELSE << Fetch("features_from_point", "water", waterOut # "fail"),
            Fetch("features_from_point", "parks", parksOut # "fail") >>

\* renderer.py:157-236  the fetches issued, then the layers drawn or the
\* exception that leaves the function
render_map_side(theme, fast, roadOut, waterOut, parksOut) ==
    LET network_type == IF fast THEN "drive" ELSE "all"
        road == << Fetch("graph_from_point", network_type, roadOut.ok) >>
        fetches == road \o polygon_fetches(fast, waterOut, parksOut)
        drawWater == ~fast /\ waterOut = "data"
        drawParks == ~fast /\ parksOut = "data"
        keys == (IF drawWater THEN <<"water">> ELSE <<>>)
                \o (IF drawParks THEN <<"parks">> ELSE <<>>)
                \o edge_color_keys(roadOut.G)
                \o <<"bg", "gradient_color", "gradient_color", "text", "text", "text", "text">>
        m == FirstMissing(theme, keys)
    IN  IF "bg" \notin DOMAIN theme
        THEN [raised |-> TRUE, exc |-> KeyError("bg"), cause |-> "theme_field",
              fetches |-> <<>>, layers |-> NoLayers]
        ELSE IF ~roadOut.ok
        THEN [raised |-> TRUE, exc |-> roadOut.exc, cause |-> "road_fetch",
              fetches |-> road, layers |-> NoLayers]
        ELSE IF m # 0
        THEN [raised |-> TRUE, exc |-> KeyError(keys[m]), cause |-> "theme_field",
              fetches |-> fetches, layers |-> NoLayers]
        ELSE [raised |-> FALSE, exc |-> NoExc, cause |-> "", fetches |-> fetches,
              layers |-> [water |-> drawWater, parks |-> drawParks,
                          edge_colors |-> get_edge_colors_by_type(roadOut.G, theme),
                          edge_widths |-> get_edge_widths_by_type(roadOut.G)]]

NoImage == [city |-> <<>>, country |-> <<>>, point |-> <<>>, bg |-> <<>>, dpi |-> 0,
            layers |-> NoLayers, pane |-> <<>>]

\* renderer.py:296-344  the PNG bytes, told by what they show
create_postcard(city, country, point, theme, message, fast, roadOut, waterOut, parksOut) ==
    LET map == render_map_side(theme, fast, roadOut, waterOut, parksOut)
    IN  IF "bg" \notin DOMAIN theme
        THEN [raised |-> TRUE, exc |-> KeyError("bg"), cause |-> "theme_field",
              fetches |-> <<>>, image |-> NoImage]
        ELSE IF map.raised
        THEN [raised |-> TRUE, exc |-> map.exc, cause |-> map.cause,
              fetches |-> map.fetches, image |-> NoImage]
        ELSE [raised |-> FALSE, exc |-> NoExc, cause |-> "", fetches |-> map.fetches,
              image |-> [city |-> city, country |-> country, point |-> point,
                         bg |-> theme["bg"], dpi |-> IF fast THEN 150 ELSE 300,
                         layers |-> map.layers, pane |-> render_message_side(message)]]

\* -------------------------------------------------------------------- state
VARIABLES now,        \* the clock, in ticks
          req,        \* the POST /api/generate requests, by id
          files,      \* POSTCARDS_DIR: filename -> content
          sG, sTheme, sColors, sWidths, sPc,   \* styling specification
          mMessage, mDrawn, mPc                \* message specification

vars == <<now, req, files, sG, sTheme, sColors, sWidths, sPc, mMessage, mDrawn, mPc>>
mainVars == <<now, req, files>>
styleVars == <<sG, sTheme, sColors, sWidths, sPc>>
msgVars == <<mMessage, mDrawn, mPc>>

NoResponse == [status |-> 0, detail |-> <<>>, success |-> FALSE, filename |-> <<>>, url |-> <<>>]

\* a request not yet received
IdleReq == [pc |-> "idle", city |-> <<>>, country |-> <<>>, theme |-> <<>>,
            message |-> <<>>, fast |-> FALSE, loaded |-> FALSE, themeRec |-> <<>>,
            sleepFrom |-> 0, after |-> {}, point |-> <<>>, image |-> NoImage,
            fetches |-> <<>>, filename |-> <<>>, touched |-> {}, log |-> <<>>,
            cause |-> "", resp |-> NoResponse]

EmptyFile == [img |-> NoImage, whole |-> FALSE]

\* routes.py:68  HTTPException(400, f"Theme '{request.theme}' not found")
theme_not_found(theme) ==
    [NoResponse EXCEPT !.status = 400,
                       !.detail = <<"Theme '">> \o theme \o <<"' not found">>]

\* an exception that leaves the handler: the framework's bare 500
unhandled(e) == [NoResponse EXCEPT !.status = 500, !.detail = <<"Internal Server Error">>]

\* routes.py:105-108  the two except clauses around geocode, compose and persist
on_exception(e) ==
    IF e.cls = "ValueError"
    THEN [NoResponse EXCEPT !.status = 400, !.detail = e.msg]
    ELSE [NoResponse EXCEPT !.status = 500,
                            !.detail = <<"Failed to generate postcard: ">> \o e.msg]

\* routes.py:99-103
success_response(filename) ==
    [NoResponse EXCEPT !.status = 200, !.success = TRUE, !.filename = filename,
                       !.url = <<"/static/postcards/">> \o filename]

\* routes.py:111-117  GET /postcards/{filename}
get_postcard(filename) == IF filename \notin DOMAIN files THEN 404 ELSE 200

\* dict.get(key, default)
dict_get(d, k, default) == IF k \in DOMAIN d THEN d[k] ELSE default

\* routes.py:31-59  GET /api/themes: a summary of every record that parses,
\* absent fields filled with the fixed defaults (kept as a set, unordered)
list_themes ==
    { [id |-> id,
       name |-> dict_get(ThemesDir[id].data, "name", id),
       description |-> dict_get(ThemesDir[id].data, "description", <<>>),
       bg |-> dict_get(ThemesDir[id].data, "bg", <<"#FFFFFF">>),
       text |-> dict_get(ThemesDir[id].data, "text", <<"#000000">>),
       water |-> dict_get(ThemesDir[id].data, "water", <<"#C0C0C0">>),
       parks |-> dict_get(ThemesDir[id].data, "parks", <<"#F0F0F0">>),
       road_primary |-> dict_get(ThemesDir[id].data, "road_primary", <<"#333333">>)] :
      id \in {t \in DOMAIN ThemesDir : ThemesDir[t].kind = "json"} }

Done(i) == req[i].pc = "done"

Fail(r, cause, resp) == [r EXCEPT !.pc = "done", !.cause = cause, !.resp = resp]

\* routes.py:63-76  validate the theme, load it, enter get_coordinates' delay
Generate(i, city, country, theme, message, fast, readOk) ==
    /\ req[i].pc = "idle"
    /\ \A j \in Reqs : j < i => req[j].pc # "idle"    \* ids in order of arrival
    /\ LET r0 == [req[i] EXCEPT !.city = city, !.country = country, !.theme = theme,
                                !.message = message, !.fast = fast,
                                !.after = {j \in Reqs : Done(j)},
                                !.log = <<"validate">>]
       IN  IF theme \notin DOMAIN ThemesDir
           THEN req' = [req EXCEPT ![i] = Fail(r0, "unknown_theme", theme_not_found(theme))]
           ELSE LET r1 == [r0 EXCEPT !.log = Append(@, "load")]
                IN  IF ~readOk \/ ThemesDir[theme].kind # "json"
                    THEN req' = [req EXCEPT ![i] =
                                   Fail(r1, "theme_load",
                                        unhandled(Exc("Other", <<"cannot load theme">>)))]
                    ELSE req' = [req EXCEPT ![i] =
                                   [r1 EXCEPT !.pc = "sleeping", !.loaded = TRUE,
                                              !.themeRec = ThemesDir[theme].data,
                                              !.sleepFrom = now,
                                              !.log = Append(@, "geocode")]]
    /\ UNCHANGED <<now, files>>

\* renderer.py:56-61  the lookup, once the delay is over
Geocode(i, geoOut) ==
    /\ req[i].pc = "sleeping"
    /\ now >= WakeTime(req[i].sleepFrom)
    /\ LET g == get_coordinates(req[i].city, req[i].country, geoOut)
           r1 == [req[i] EXCEPT !.fetches = << Fetch("geocode", "", ~g.raised) >>]
       IN  IF g.raised
           THEN req' = [req EXCEPT ![i] = Fail([r1 EXCEPT !.sleepFrom = 0], g.cause,
                                                on_exception(g.exc))]
           ELSE req' = [req EXCEPT ![i] = [r1 EXCEPT !.pc = "located", !.point = g.point,
                                                        !.sleepFrom = 0]]
    /\ UNCHANGED <<now, files>>

\* compose with the output file created before the image is rendered
Compose_open_first(i, roadOut, waterOut, parksOut) ==
    /\ req[i].pc = "located"
    /\ LET r == req[i]
           filename == filename_of(r.city, r.theme, now)
           c == create_postcard(r.city, r.country, r.point, r.themeRec, r.message,
                                r.fast, roadOut, waterOut, parksOut)
           r1 == [r EXCEPT !.log = Append(@, "compose"), !.fetches = @ \o c.fetches,
                           !.touched = @ \cup {filename}]
       IN  /\ files' = (filename :> EmptyFile) @@ files
           /\ IF c.raised
              THEN req' = [req EXCEPT ![i] = Fail(r1, c.cause, on_exception(c.exc))]
              ELSE req' = [req EXCEPT ![i] = [r1 EXCEPT !.pc = "composed", !.image = c.image]]
    /\ UNCHANGED now

\* routes.py:79-87  create_postcard
Compose(i, roadOut, waterOut, parksOut) ==
    /\ req[i].pc = "located"
    /\ LET r == req[i]
           c == create_postcard(r.city, r.country, r.point, r.themeRec, r.message,
                                r.fast, roadOut, waterOut, parksOut)
           r1 == [r EXCEPT !.log = Append(@, "compose"), !.fetches = @ \o c.fetches]
       IN  IF c.raised
           THEN req' = [req EXCEPT ![i] = Fail(r1, c.cause, on_exception(c.exc))]
           ELSE req' = [req EXCEPT ![i] = [r1 EXCEPT !.pc = "composed", !.image = c.image]]
    /\ UNCHANGED <<now, files>>

\* routes.py:90-96  mkdir, timestamp, filename, open(filepath, 'wb')
PersistOpen(i, openOk) ==
    /\ req[i].pc = "composed"
    /\ LET r == req[i]
           filename == filename_of(r.city, r.theme, now)
           r1 == [r EXCEPT !.log = Append(@, "persist"), !.filename = filename]
       IN  IF ~openOk
           THEN /\ req' = [req EXCEPT ![i] =
                             Fail(r1, "io_open", on_exception(Exc("Other", <<"Permission denied">>)))]
                /\ files' = files
           ELSE /\ req' = [req EXCEPT ![i] = [r1 EXCEPT !.pc = "opened",
                                                        !.touched = @ \cup {filename}]]
                /\ files' = (filename :> EmptyFile) @@ files
    /\ UNCHANGED now

\* routes.py:97  f.write(image_bytes) and the close of the with block
PersistWrite(i, out) ==
    /\ req[i].pc = "opened"
    /\ LET r == req[i]
       IN  IF out = "ok"
           THEN /\ files' = [files EXCEPT ![r.filename] = [img |-> r.image, whole |-> TRUE]]
                /\ req' = [req EXCEPT ![i] = [r EXCEPT !.pc = "written"]]
           ELSE /\ files' = [files EXCEPT ![r.filename] =
                               IF out = "fail_partial" THEN [img |-> r.image, whole |-> FALSE]
                               ELSE @]
                /\ req' = [req EXCEPT ![i] =
                             Fail(r, "io_write",
                                  on_exception(Exc("Other", <<"No space left on device">>)))]
    /\ UNCHANGED now

\* routes.py:99-103
Respond(i) ==
    /\ req[i].pc = "written"
    /\ req' = [req EXCEPT ![i] = [@ EXCEPT !.pc = "done", !.log = Append(@, "respond"),
                                           !.resp = success_response(req[i].filename)]]
    /\ UNCHANGED <<now, files>>

\* time passes
Tick ==
    /\ now < MaxTime
    /\ now' = now + 1
    /\ UNCHANGED <<req, files>>

StyleIdle == /\ sG = <<>> /\ sTheme = FullTheme(1) /\ sColors = <<>> /\ sWidths = <<>>
             /\ sPc = "off"
MsgIdle == /\ mMessage = <<>> /\ mDrawn = <<>> /\ mPc = "off"

Init ==
    /\ now = 0
    /\ req = [i \in Reqs |-> IdleReq]
    /\ files = [f \in {} |-> EmptyFile]
    /\ StyleIdle
    /\ MsgIdle

Next ==
    \/ \E i \in Reqs, city \in Cities, country \in Countries, theme \in ThemeIds,
          message \in MainMessages, fast \in BOOLEAN, readOk \in BOOLEAN :
            Generate(i, city, country, theme, message, fast, readOk) /\ UNCHANGED <<styleVars, msgVars>>
    \/ \E i \in Reqs, geoOut \in GeoOutcomes :
            Geocode(i, geoOut) /\ UNCHANGED <<styleVars, msgVars>>
    \/ \E i \in Reqs, roadOut \in RoadOutcomes, waterOut \in LayerOutcomes,
          parksOut \in LayerOutcomes :
            Compose(i, roadOut, waterOut, parksOut) /\ UNCHANGED <<styleVars, msgVars>>
    \/ \E i \in Reqs, openOk \in BOOLEAN :
            PersistOpen(i, openOk) /\ UNCHANGED <<styleVars, msgVars>>
    \/ \E i \in Reqs, out \in {"ok", "fail_empty", "fail_partial"} :
            PersistWrite(i, out) /\ UNCHANGED <<styleVars, msgVars>>
    \/ \E i \in Reqs : Respond(i) /\ UNCHANGED <<styleVars, msgVars>>
    \/ Tick /\ UNCHANGED <<styleVars, msgVars>>

Spec == Init /\ [][Next]_vars

\* ------------------------------------------------- styling specification
StyleThemes == {FullTheme(1), FullTheme(2)}
Graphs == SeqsUpTo(EdgeData, MaxEdges)

MainIdle == /\ now = 0 /\ req = [i \in Reqs |-> IdleReq] /\ files = [f \in {} |-> EmptyFile]

StyleInit ==
    /\ MainIdle /\ MsgIdle
    /\ sG \in Graphs /\ sTheme \in StyleThemes
    /\ sColors = <<>> /\ sWidths = <<>> /\ sPc = "ready"

\* renderer.py:190-191  the two styling calls of render_map_side
StyleRoads ==
    /\ sPc = "ready"
    /\ sColors' = get_edge_colors_by_type(sG, sTheme)
    /\ sWidths' = get_edge_widths_by_type(sG)
    /\ sPc' = "done"
    /\ UNCHANGED <<sG, sTheme>>

StyleNext == StyleRoads /\ UNCHANGED <<mainVars, msgVars>>

SpecStyle == StyleInit /\ [][StyleNext]_vars

\* ------------------------------------------------- message specification
Messages == SeqsUpTo({" ", "\n", "a"}, MaxMsgLen)

MsgInit ==
    /\ MainIdle /\ StyleIdle
    /\ mMessage \in Messages /\ mDrawn = <<>> /\ mPc = "ready"

\* renderer.py:329  render_message_side(ax_text, message, theme)
RenderMessage ==
    /\ mPc = "ready"
    /\ mDrawn' = render_message_side(mMessage)
    /\ mPc' = "done"
    /\ UNCHANGED mMessage

MsgNext == RenderMessage /\ UNCHANGED <<mainVars, styleVars>>

SpecMsg == MsgInit /\ [][MsgNext]_vars

\* ================================================================== claims
IsPrefix(p, q) == Len(p) <= Len(q) /\ SubSeq(q, 1, Len(p)) = p
Failed(i) == req[i].resp.status \in {400, 500}
Succeeded(i) == req[i].resp.status = 200

\* C1: a request is answered 400 exactly when the theme has no record or the
\* geocoder found no match; every other failure is answered 500.
C1_BadRequestOnlyThemeOrGeocode ==
    \A i \in Reqs :
        Done(i) /\ req[i].cause # "" =>
            /\ req[i].resp.status \in {400, 500}
            /\ req[i].resp.status = 400 <=> req[i].cause \in {"unknown_theme", "geocode_miss"}

\* C2: every failure other than unknown theme or geocoding miss is answered
\* 500 with the detail "Failed to generate postcard: " followed by the error.
C2_OtherFailuresPrefixed500 ==
    \A i \in Reqs :
        Done(i) /\ req[i].cause \notin {"", "unknown_theme", "geocode_miss"} =>
            /\ req[i].resp.status = 500
            /\ IsPrefix(<<"Failed to generate postcard: ">>, req[i].resp.detail)
            /\ Len(req[i].resp.detail) > 1

\* C3: no two successful requests write to the same filename.
C3_UniqueFilenames ==
    \A i, j \in Reqs :
        i # j /\ Succeeded(i) /\ Succeeded(j) => req[i].filename # req[j].filename

\* C4: two successive successful requests (the first answered before the
\* second arrives) for the same city and theme with fast=false get different
\* filenames.
C4_SuccessiveNamesDiffer ==
    \A i, j \in Reqs :
        ( /\ j \in req[i].after
          /\ Succeeded(i) /\ Succeeded(j)
          /\ req[i].city = req[j].city /\ req[i].theme = req[j].theme
          /\ ~req[i].fast /\ ~req[j].fast )
        => req[i].filename # req[j].filename

C4_Witness ==
    \E i, j \in Reqs :
        /\ j \in req[i].after
        /\ Succeeded(i) /\ Succeeded(j)
        /\ req[i].city = req[j].city /\ req[i].theme = req[j].theme
        /\ ~req[i].fast /\ ~req[j].fast
        /\ req[i].filename # req[j].filename

\* the slug as the specification words it, character by character
SlugOK(city, slug) ==
    LET kept == SelectSeq(city, LAMBDA c : c # "'")
    IN  /\ Len(slug) = Len(kept)
        /\ \A k \in 1..Len(kept) :
              slug[k] = (IF kept[k] = " " THEN "_" ELSE LowerChar(kept[k]))

Digits == {"0", "1", "2", "3", "4", "5", "6", "7", "8", "9"}
\* YYYYMMDD_HHMMSS
IsTimestamp(ts) ==
    /\ Len(ts) = 15
    /\ \A k \in 1..15 : IF k = 9 THEN ts[k] = "_" ELSE ts[k] \in Digits

\* C5: at the moment a request is answered 200 the body is {success, filename,
\* url} in the documented format and the named file holds exactly the bytes
\* the compositor returned to that request, so GET /postcards/{filename} is 200.
C5_ResponseNamesOwnFile ==
    [][ \A i \in Reqs :
          (req[i].pc = "written" /\ req'[i].pc = "done") =>
            LET r == req'[i]
            IN  /\ r.resp.status = 200 /\ r.resp.success
                /\ \E n \in 0..Len(r.resp.filename) :
                      LET slug == SubSeq(r.resp.filename, 1, n)
                          rest == SubSeq(r.resp.filename, n + 1, Len(r.resp.filename))
                      IN  /\ SlugOK(r.city, slug)
                          /\ Len(rest) = Len(r.theme) + 18
                          /\ rest = <<"_">> \o r.theme \o <<"_">>
                                    \o SubSeq(rest, Len(r.theme) + 3, Len(rest) - 1)
                                    \o <<".png">>
                          /\ IsTimestamp(SubSeq(rest, Len(r.theme) + 3, Len(rest) - 1))
                /\ r.resp.url = <<"/static/postcards/">> \o r.resp.filename
                /\ r.resp.filename \in DOMAIN files'
                /\ (get_postcard(req[i].filename))' = 200
                /\ files'[r.resp.filename] = [img |-> r.image, whole |-> TRUE]
      ]_vars

\* the classes of the styling table
ClassOf(tag) ==
    CASE tag \in {"motorway", "motorway_link"} -> "motorway"
      [] tag \in {"trunk", "trunk_link", "primary", "primary_link"} -> "primary"
      [] tag \in {"secondary", "secondary_link"} -> "secondary"
      [] tag \in {"tertiary", "tertiary_link"} -> "tertiary"
      [] tag \in {"residential", "living_street", "unclassified"} -> "residential"
      [] OTHER -> "default"
ClassWidth(c) ==
    CASE c = "motorway" -> 12 [] c = "primary" -> 10 [] c = "secondary" -> 8
      [] c = "tertiary" -> 6 [] OTHER -> 4
ClassColor(theme, c) ==
    CASE c = "motorway" -> theme.road_motorway [] c = "primary" -> theme.road_primary
      [] c = "secondary" -> theme.road_secondary [] c = "tertiary" -> theme.road_tertiary
      [] c = "residential" -> theme.road_residential [] OTHER -> theme.road_default
NoTag(d) == d.kind = "absent" \/ (d.kind = "list" /\ d.v = <<>>)

\* C6 as claimed: colour and width follow the table, and an absent tag falls
\* to the default class (colour road_default, width 0.4).
C6_AbsentTagDefaultClass ==
    sPc = "done" =>
        /\ Len(sColors) = Len(sG) /\ Len(sWidths) = Len(sG)
        /\ \A k \in 1..Len(sG) :
              LET c == IF NoTag(sG[k]) THEN "default" ELSE ClassOf(sG[k].v[1])
              IN  sColors[k] = ClassColor(sTheme, c) /\ sWidths[k] = ClassWidth(c)

\* C6 amended: colour and width follow the table by the highway tag (first
\* element of a list), tags outside the table get road_default and 0.4, and an
\* absent tag or empty list is styled as "unclassified": road_residential, 0.4.
C6_StyleTable ==
    sPc = "done" =>
        /\ Len(sColors) = Len(sG) /\ Len(sWidths) = Len(sG)
        /\ \A k \in 1..Len(sG) :
              LET c == IF NoTag(sG[k]) THEN "residential" ELSE ClassOf(sG[k].v[1])
              IN  sColors[k] = ClassColor(sTheme, c) /\ sWidths[k] = ClassWidth(c)

C6_Witness ==
    /\ sPc = "done"
    /\ \E k \in 1..Len(sG) : sG[k].kind = "absent" /\ sColors[k] = sTheme.road_residential
    /\ \E k \in 1..Len(sG) : sG[k].kind = "str" /\ sG[k].v[1] = "footway"
                             /\ sColors[k] = sTheme.road_default /\ sWidths[k] = 4

AllWhitespace(m) == \A k \in 1..Len(m) : m[k] \in {" ", "\n"}
Drawn(op) == \E k \in 1..Len(mDrawn) : mDrawn[k].op = op
DecorationsDrawn ==
    \A d \in 1..Len(Decorations) : \E k \in 1..Len(mDrawn) : mDrawn[k] = Decorations[d]

\* C7 as claimed: a whitespace-only message draws no message text, but the
\* stamp, the address rules and the attribution are still drawn.
C7_BlankKeepsDecorations ==
    mPc = "done" /\ AllWhitespace(mMessage) => ~Drawn("message") /\ DecorationsDrawn

\* C7 amended: a whitespace-only message draws no message text and no
\* decoration either: only the pane background is set.
C7_BlankDrawsNothing ==
    mPc = "done" /\ AllWhitespace(mMessage) =>
        \A k \in 1..Len(mDrawn) : mDrawn[k].op \in {"set_facecolor", "axis_off"}

C7_Witness == mPc = "done" /\ AllWhitespace(mMessage) /\ Len(mMessage) = 2 /\ Len(mDrawn) = 2

\* C8: the record loaded for a present theme holds every colour field the
\* renderer reads, so no request fails on a missing theme field.
C8_LoadedThemeComplete ==
    \A i \in Reqs :
        /\ req[i].loaded => ColorFields \subseteq DOMAIN req[i].themeRec
        /\ req[i].theme \in {t.id : t \in list_themes} => req[i].cause # "theme_field"

Stages == <<"validate", "load", "geocode", "compose", "persist", "respond">>

\* the stages a request ran are an initial run of the fixed order, ending
\* at the stage that failed
StageOrder(i) ==
    LET r == req[i]
    IN  /\ IsPrefix(r.log, Stages)
        /\ r.cause = "unknown_theme" => r.log = SubSeq(Stages, 1, 1)
        /\ r.cause = "theme_load" => r.log = SubSeq(Stages, 1, 2)
        /\ r.cause \in {"geocode_miss", "geocode_error"} => r.log = SubSeq(Stages, 1, 3)
        /\ r.cause \in {"road_fetch", "theme_field"} => r.log = SubSeq(Stages, 1, 4)
        /\ r.cause \in {"io_open", "io_write"} => r.log = SubSeq(Stages, 1, 5)
        /\ Succeeded(i) => r.log = Stages
        /\ r.cause = "unknown_theme" => r.fetches = <<>>

\* C9 as claimed: stages run in the fixed order and stop at the first
\* failure, and a request answered 400 or 500 never created or wrote a file.
C9_FailedRequestLeavesNoFile ==
    \A i \in Reqs : StageOrder(i) /\ (Failed(i) => req[i].touched = {})

\* C9 amended: stages run in the fixed order and stop at the first failure; a
\* request answered 400 or 500 never completed a file write, and it created
\* or truncated a file only when open succeeded and the write itself failed.
C9_StagesInOrder ==
    \A i \in Reqs :
        /\ StageOrder(i)
        /\ Failed(i) /\ req[i].cause # "io_write" => req[i].touched = {}
        /\ Failed(i) /\ req[i].cause = "io_write" =>
              /\ req[i].touched = {req[i].filename}
              /\ req[i].filename \in DOMAIN files
              /\ files[req[i].filename] # [img |-> req[i].image, whole |-> TRUE]
                 \/ \E j \in Reqs \ {i} : req[j].filename = req[i].filename

C9_Witness ==
    \E i, j \in Reqs :
        /\ req[i].cause = "io_write" /\ Failed(i) /\ req[i].touched # {}
        /\ req[j].cause = "unknown_theme" /\ Failed(j)

\* the map fetches of a request: those after the geocoder lookup
MapFetches(i) == SelectSeq(req[i].fetches, LAMBDA f : f.what # "geocode")

\* C10: the road fetch is first and its failure ends the request with no
\* polygon fetch; with fast=false water and parks are each fetched once and
\* their failure is absorbed; with fast=true the network is "drive" and no
\* polygon is fetched; nothing is fetched twice.
C10_FetchDiscipline ==
    \A i \in Reqs :
        LET r == req[i]
            f == MapFetches(i)
        IN  "compose" \in {r.log[k] : k \in 1..Len(r.log)} /\ "bg" \in DOMAIN r.themeRec =>
              /\ Len(f) >= 1
              /\ f[1].what = "graph_from_point"
              /\ f[1].arg = (IF r.fast THEN "drive" ELSE "all")
              /\ ~f[1].ok => Len(f) = 1 /\ Failed(i) /\ r.cause = "road_fetch"
              /\ r.fast => Len(f) = 1
              /\ f[1].ok /\ ~r.fast =>
                    /\ Len(f) = 3
                    /\ f[2].what = "features_from_point" /\ f[2].arg = "water"
                    /\ f[3].what = "features_from_point" /\ f[3].arg = "parks"
              /\ f[1].ok => r.cause \in {"", "theme_field", "io_open", "io_write"}

C10_Witness ==
    \E i \in Reqs :
        /\ Succeeded(i) /\ ~req[i].fast
        /\ Len(MapFetches(i)) = 3
        /\ ~MapFetches(i)[2].ok /\ ~MapFetches(i)[3].ok

====
